---------------------------- MODULE Spec2Model ----------------------------
(***************************************************************************)
(* Model of ai_service/main.py: the /ingest and /chat endpoints of the     *)
(* retrieval-augmented question answering service, together with the       *)
(* library behaviour the two handlers rely on (the recursive character     *)
(* text splitter, the filtered similarity search of the vector store, the  *)
(* retrieval chain).                                                       *)
(*                                                                         *)
(* A text is a sequence of one-character strings.  The vector store is a   *)
(* sequence of stored vectors in insertion order.  Every request runs in   *)
(* a slot of `req'; a slot moves from one external call to the next, so    *)
(* requests interleave at exactly their suspension points.                 *)
(***************************************************************************)
EXTENDS Integers, Sequences, FiniteSets, TLC

VARIABLES store, req

vars == <<store, req>>

-----------------------------------------------------------------------------
(* Bounds of the model *)

\* longest text explored by the chunking specification
MaxTextLen == 6
\* most vectors the store may hold in the endpoint specifications
MaxStore == 4
\* longest history explored by the single-request specification
MaxHist == 3

(* Program constants, scaled down so that bounded texts and stores reach   *)
(* them: chunk_size=1000 -> 4, chunk_overlap=200 -> 2, k=5 -> 2.           *)
ChunkSize == 4
ChunkOverlap == 2
K == 2

-----------------------------------------------------------------------------
(* Characters and texts *)

SP == " "
NL == "\n"
Whitespace == {SP, NL}

\* RecursiveCharacterTextSplitter's default separators, most to least coarse
Separators == << <<NL, NL>>, <<NL>>, <<SP>>, <<>> >>

Drop(s, n) == SubSeq(s, n + 1, Len(s))

RECURSIVE Concat(_)
Concat(ss) == IF ss = <<>> THEN <<>> ELSE Head(ss) \o Concat(Tail(ss))

\* str.strip(): leading and trailing whitespace removed
RECURSIVE LStrip(_)
LStrip(t) == IF t # <<>> /\ Head(t) \in Whitespace THEN LStrip(Tail(t)) ELSE t

RECURSIVE RStrip(_)
RStrip(t) ==
    IF t # <<>> /\ t[Len(t)] \in Whitespace THEN RStrip(SubSeq(t, 1, Len(t) - 1)) ELSE t

Strip(t) == RStrip(LStrip(t))

\* re.search(separator, text) for a literal, non-empty separator
OccursAt(text, sep, i) ==
    /\ i + Len(sep) - 1 <= Len(text)
    /\ SubSeq(text, i, i + Len(sep) - 1) = sep

Contains(text, sep) == \E i \in 1..Len(text) : OccursAt(text, sep, i)

FirstOcc(text, sep) ==
    IF Contains(text, sep)
    THEN CHOOSE i \in 1..Len(text) :
            /\ OccursAt(text, sep, i)
            /\ \A j \in 1..(i - 1) : ~OccursAt(text, sep, j)
    ELSE 0

\* re.split(separator, text): the pieces between the leftmost non-overlapping
\* occurrences of the separator
RECURSIVE RePieces(_, _)
RePieces(text, sep) ==
    LET i == FirstOcc(text, sep)
    IN  IF i = 0 THEN <<text>>
        ELSE <<SubSeq(text, 1, i - 1)>> \o RePieces(Drop(text, i - 1 + Len(sep)), sep)

NonEmpty(t) == t # <<>>

\* _split_text_with_regex(text, separator, keep_separator=True): each
\* separator is kept at the start of the piece that follows it; the empty
\* separator splits into characters; empty splits are dropped
SplitTextWithRegex(text, sep) ==
    IF sep = <<>>
    THEN [i \in 1..Len(text) |-> <<text[i]>>]
    ELSE LET ps == RePieces(text, sep)
             glued == [i \in 1..Len(ps) |-> IF i = 1 THEN ps[1] ELSE sep \o ps[i]]
         IN  SelectSeq(glued, NonEmpty)

\* _join_docs(docs, separator=""): joined and stripped; nothing when empty
JoinDocs(docs) ==
    LET t == Strip(Concat(docs)) IN IF t = <<>> THEN <<>> ELSE <<t>>

\* mutant: the open chunk is emptied, no overlap is carried over
PopFrontAll(cur, total, len) == [cur |-> <<>>, total |-> 0]

\* the `while' loop of _merge_splits: pop from the front of current_doc
RECURSIVE PopFront(_, _, _)
PopFront(cur, total, len) ==
    IF total > ChunkOverlap \/ (total + len > ChunkSize /\ total > 0)
    THEN PopFront(Tail(cur), total - Len(Head(cur)), len)
    ELSE [cur |-> cur, total |-> total]

\* _merge_splits(splits, separator=""): the loop over the splits, with the
\* chunks emitted so far (docs), the open chunk (cur) and its length (total)
RECURSIVE MergeLoop(_, _, _, _)
MergeLoop(splits, docs, cur, total) ==
    IF splits = <<>> THEN docs \o JoinDocs(cur)
    ELSE LET d == Head(splits)
             len == Len(d)
         IN  IF total + len > ChunkSize /\ cur # <<>>
             THEN LET p == PopFront(cur, total, len)
                  IN  MergeLoop(Tail(splits), docs \o JoinDocs(cur),
                                Append(p.cur, d), p.total + len)
             ELSE MergeLoop(Tail(splits), docs, Append(cur, d), total + len)

MergeSplits(splits) == MergeLoop(splits, <<>>, <<>>, 0)

\* the separator _split_text chooses: the first one of `seps' that is empty
\* or occurs in the text (index into seps)
RECURSIVE PickSep(_, _, _)
PickSep(text, seps, i) ==
    IF i >= Len(seps) THEN Len(seps)
    ELSE IF seps[i] = <<>> \/ Contains(text, seps[i]) THEN i
    ELSE PickSep(text, seps, i + 1)

\* RecursiveCharacterTextSplitter._split_text(text, separators)
RECURSIVE SplitRec(_, _)
RECURSIVE SplitLoop(_, _, _, _)
SplitLoop(splits, newSeps, final, good) ==
    IF splits = <<>>
    THEN final \o (IF good # <<>> THEN MergeSplits(good) ELSE <<>>)
    ELSE LET s == Head(splits)
         IN  IF Len(s) < ChunkSize
             THEN SplitLoop(Tail(splits), newSeps, final, Append(good, s))
             ELSE LET flushed == final \o (IF good # <<>> THEN MergeSplits(good) ELSE <<>>)
                      deeper == IF newSeps = <<>> THEN <<s>> ELSE SplitRec(s, newSeps)
                  IN  SplitLoop(Tail(splits), newSeps, flushed \o deeper, <<>>)

SplitRec(text, seps) ==
    LET i == PickSep(text, seps, 1)
        sep == seps[i]
        newSeps == IF sep = <<>> THEN <<>> ELSE Drop(seps, i)
    IN  SplitLoop(SplitTextWithRegex(text, sep), newSeps, <<>>, <<>>)

\* text_splitter.split_text(text)
SplitText(text) == SplitRec(text, Separators)


-----------------------------------------------------------------------------
(* Documents, stored vectors and the vector store *)

\* marks a field a stored vector or a history turn does not have
Absent == "<absent>"

\* Document(page_content=chunk, metadata={"document_id": document_id})
Document(chunk, metadata) == [page_content |-> chunk, metadata |-> metadata]

\* text_splitter.create_documents(texts=[text], metadatas=[metadata])
CreateDocuments(text, metadata) ==
    LET cs == SplitText(text)
    IN  [i \in 1..Len(cs) |-> Document(cs[i], metadata)]

\* mutant: the metadata is stored nested, not spread over the root
ToVectorNested(doc) ==
    [root |-> Absent, nested |-> doc.metadata.document_id, text |-> doc.page_content]

\* the record add_documents inserts for one chunk: the text, its embedding
\* (not modelled) and the metadata spread over the root of the record
ToVector(doc) ==
    [root |-> doc.metadata.document_id, nested |-> Absent, text |-> doc.page_content]

\* a record written by an ingestion path that nested the metadata instead
LegacyVector(d, chunk) == [root |-> Absent, nested |-> d, text |-> chunk]

\* mutant: the filter tests that the field exists, not its value
MatchesAnyDocument(v, path, d) ==
    IF path = "root" THEN v.root # Absent ELSE v.nested # Absent

\* pre_filter={"document_id": {"$eq": d}} (path "root") and
\* pre_filter={"metadata.document_id": {"$eq": d}} (path "nested")
Matches(v, path, d) == IF path = "root" THEN v.root = d ELSE v.nested = d

\* the subsequence of s at the positions in idx
RECURSIVE Pick(_, _, _)
Pick(s, idx, i) ==
    IF i > Len(s) THEN <<>>
    ELSE (IF i \in idx THEN <<s[i]>> ELSE <<>>) \o Pick(s, idx, i + 1)

Min(a, b) == IF a < b THEN a ELSE b

\* similarity_search(query, k, pre_filter): the results a search with the
\* filter (path, d) may return: k of the vectors the filter admits, all of
\* them when there are at most k.  Which k rank highest is decided by the
\* embeddings, which are not modelled, so every choice is possible.
SimilaritySearch(st, path, d, k) ==
    LET hit == {i \in 1..Len(st) : Matches(st[i], path, d)}
    IN  {Pick(st, idx, 1) : idx \in {x \in SUBSET hit : Cardinality(x) = Min(k, Cardinality(hit))}}

\* the document a stored vector belongs to
DocIdOf(v) == IF v.root # Absent THEN v.root ELSE v.nested

-----------------------------------------------------------------------------
(* Requests and responses *)

\* mutant: only document_id is required
RequiredIdOnly(kind) == {"document_id"}

\* IngestRequest and ChatRequest: the fields pydantic requires
Required(kind) ==
    IF kind = "ingest" THEN {"document_id", "text"}
    ELSE {"document_id", "question", "history"}

\* body validation of the request model: every required field is present
\* (a str field accepts any string, the empty one included)
Valid(in) == Required(in.kind) \subseteq in.present

IngestInput(present, d, text) ==
    [kind |-> "ingest", present |-> present, document_id |-> d, text |-> text,
     question |-> "", history |-> <<>>]

ChatInput(present, d, q, h) ==
    [kind |-> "chat", present |-> present, document_id |-> d, text |-> <<>>,
     question |-> q, history |-> h]

NoResp == [status |-> 0, kind |-> "none", answer |-> "", chunks_created |-> 0, detail |-> ""]

\* FastAPI's answer to a body that fails validation
ValidationError == [NoResp EXCEPT !.status = 422, !.kind = "validation_error"]

\* mutant: the exception is swallowed and an empty answer returned
SilentEmptyAnswer(e) == [NoResp EXCEPT !.status = 200, !.kind = "answer"]

\* raise HTTPException(status_code=500, detail=str(e))
ServerError(e) == [NoResp EXCEPT !.status = 500, !.kind = "error", !.detail = e]

\* return {"status": "success", "chunks_created": len(chunks)}
IngestSuccess(chunks) ==
    [NoResp EXCEPT !.status = 200, !.kind = "success", !.chunks_created = Len(chunks)]

\* return {"answer": ...}
Answer(a) == [NoResp EXCEPT !.status = 200, !.kind = "answer", !.answer = a]

NoContentMessage == "I cannot find any content for this document. It might still be processing."

\* what the language model may answer
LlmAnswers == {"generated answer"}

\* the exceptions of the three collaborators, by their message
EmbedError == "embedding provider failed"
StoreError == "vector store failed"
LlmError == "language model failed"

\* one call to a collaborator: embed_documents, insert, embed_query,
\* search_root, search_nested, retrieve_root, llm
Call(op, ok, out) == [op |-> op, ok |-> ok, out |-> out]

Idle ==
    [pc |-> "idle", in |-> ChatInput({}, "", "", <<>>), chunks |-> <<>>, results |-> <<>>,
     history_messages |-> <<>>, context |-> <<>>, llm |-> <<>>, log |-> <<>>,
     resp |-> NoResp]

\* mutant: `else' in place of `elif role == "ai"'
RECURSIVE AssembleElse(_)
AssembleElse(history) ==
    IF history = <<>> THEN <<>>
    ELSE LET msg == Head(history)
         IN  <<[type |-> IF msg.role = "user" THEN "human" ELSE "ai",
                content |-> msg.content]>> \o AssembleElse(Tail(history))

\* history_messages of chat_endpoint: the loop over request.history
RECURSIVE Assemble(_)
Assemble(history) ==
    IF history = <<>> THEN <<>>
    ELSE LET msg == Head(history)
             m == IF msg.role = "user" THEN <<[type |-> "human", content |-> msg.content]>>
                  ELSE IF msg.role = "ai" THEN <<[type |-> "ai", content |-> msg.content]>>
                  ELSE <<>>
         IN  m \o Assemble(Tail(history))

\* the prompt the stuff-documents chain formats: the system instruction with
\* the retrieved documents as {context}, chat_history, then the question
Prompt(context, chat_history, input) ==
    [context |-> context, chat_history |-> chat_history, input |-> input]

-----------------------------------------------------------------------------
(* The endpoints *)

\* the filters of chat_endpoint: the first search, the fallback search and
\* the retriever handed to the chain
PrimaryPath == "root"
FallbackPath == "nested"
RetrieverPath == "root"

\* vector_store.add_documents(chunks): the vectors are appended to the store
AddDocuments(st, vs) == st \o vs

\* the request ends: the calls it just made are logged, the response is set
Finish(q, calls, resp) == [q EXCEPT !.pc = "done", !.log = @ \o calls, !.resp = resp]

\* mutant: the chain is invoked without its retriever
BuildChainSkipRetrieval(q) ==
    [q EXCEPT !.history_messages = Assemble(q.in.history), !.pc = "generate"]

\* lines 117-144 of chat_endpoint: the retriever, history_messages, the
\* prompt template and the chain are built; chain.invoke comes next
BuildChain(q) == [q EXCEPT !.history_messages = Assemble(q.in.history), !.pc = "retrieve"]

\* a similarity search that returned `res': embed_query, then the store query
Searched(q, op, res) ==
    [q EXCEPT !.results = res,
              !.log = @ \o <<Call("embed_query", TRUE, <<>>), Call(op, TRUE, res)>>]

\* `if not results:' after the first search
AfterPrimary(q) == IF q.results = <<>> THEN [q EXCEPT !.pc = "search_nested"] ELSE BuildChain(q)

\* mutant: no short circuit when the fallback search finds nothing
AfterFallbackNoShortCircuit(q) ==
    [q EXCEPT !.history_messages = Assemble(q.in.history), !.pc = "retrieve"]

\* `if not results:' after the fallback search
AfterFallback(q) ==
    IF q.results = <<>> THEN Finish(q, <<>>, Answer(NoContentMessage)) ELSE BuildChain(q)

\* A request arrives in slot r with a body from `ins'.  The body is validated
\* against the request model before the handler runs.  An ingest is admitted
\* only while its chunks fit under `cap' (the bound of the model).
Receive(r, ins, cap) ==
    /\ req[r].pc = "idle"
    /\ \E in \in ins :
          /\ in.kind = "ingest" => Len(store) + Len(SplitText(in.text)) <= cap
          /\ req' = [req EXCEPT ![r] =
                       IF Valid(in)
                       THEN [Idle EXCEPT !.in = in,
                                         !.pc = IF in.kind = "ingest" THEN "ingest"
                                                ELSE "search_root"]
                       ELSE [Idle EXCEPT !.in = in, !.pc = "done", !.resp = ValidationError]]
    /\ UNCHANGED store

\* ingest_endpoint: split, add to the vector store, report the count
Ingest(r) ==
    LET q == req[r]
        chunks == CreateDocuments(q.in.text, [document_id |-> q.in.document_id])
        vs == [i \in 1..Len(chunks) |-> ToVector(chunks[i])]
        q1 == [q EXCEPT !.chunks = chunks]
    IN  /\ q.pc = "ingest"
        /\ \/ /\ vs = <<>>
              /\ req' = [req EXCEPT ![r] = Finish(q1, <<>>, IngestSuccess(chunks))]
              /\ UNCHANGED store
           \/ /\ vs # <<>>
              /\ req' = [req EXCEPT ![r] =
                           Finish(q1, <<Call("embed_documents", FALSE, <<>>)>>,
                                  ServerError(EmbedError))]
              /\ UNCHANGED store
           \/ /\ vs # <<>>
              /\ \E j \in 0..(Len(vs) - 1) :
                    /\ store' = AddDocuments(store, SubSeq(vs, 1, j))
                    /\ req' = [req EXCEPT ![r] =
                                 Finish(q1, <<Call("embed_documents", TRUE, <<>>),
                                              Call("insert", FALSE, SubSeq(vs, 1, j))>>,
                                        ServerError(StoreError))]
           \/ /\ vs # <<>>
              /\ store' = AddDocuments(store, vs)
              /\ req' = [req EXCEPT ![r] =
                           Finish(q1, <<Call("embed_documents", TRUE, <<>>),
                                        Call("insert", TRUE, vs)>>,
                                  IngestSuccess(chunks))]

\* a similarity search of chat_endpoint that raises: in embed_query, or in
\* the store query
SearchFails(r, op) ==
    \/ req' = [req EXCEPT ![r] =
                 Finish(req[r], <<Call("embed_query", FALSE, <<>>)>>, ServerError(EmbedError))]
    \/ req' = [req EXCEPT ![r] =
                 Finish(req[r], <<Call("embed_query", TRUE, <<>>), Call(op, FALSE, <<>>)>>,
                        ServerError(StoreError))]

\* chat_endpoint, the search on the root document_id
SearchRoot(r) ==
    /\ req[r].pc = "search_root"
    /\ \/ SearchFails(r, "search_root")
       \/ \E res \in SimilaritySearch(store, PrimaryPath, req[r].in.document_id, K) :
             req' = [req EXCEPT ![r] = AfterPrimary(Searched(req[r], "search_root", res))]
    /\ UNCHANGED store

\* chat_endpoint, the fallback search on metadata.document_id
SearchNested(r) ==
    /\ req[r].pc = "search_nested"
    /\ \/ SearchFails(r, "search_nested")
       \/ \E res \in SimilaritySearch(store, FallbackPath, req[r].in.document_id, K) :
             req' = [req EXCEPT ![r] = AfterFallback(Searched(req[r], "search_nested", res))]
    /\ UNCHANGED store

\* chain.invoke, first half: the retriever fetches the context documents
Retrieve(r) ==
    /\ req[r].pc = "retrieve"
    /\ \/ SearchFails(r, "retrieve")
       \/ \E res \in SimilaritySearch(store, RetrieverPath, req[r].in.document_id, K) :
             req' = [req EXCEPT ![r] =
                       [req[r] EXCEPT !.context = res, !.pc = "generate",
                                      !.log = @ \o <<Call("embed_query", TRUE, <<>>),
                                                     Call("retrieve", TRUE, res)>>]]
    /\ UNCHANGED store

\* chain.invoke, second half: the language model is called with the prompt,
\* and its answer is returned
Generate(r) ==
    LET q == req[r]
        q1 == [q EXCEPT !.llm = Append(@, Prompt(q.context, q.history_messages, q.in.question))]
    IN  /\ q.pc = "generate"
        /\ \/ req' = [req EXCEPT ![r] =
                        Finish(q1, <<Call("llm", FALSE, <<>>)>>, ServerError(LlmError))]
           \/ \E a \in LlmAnswers :
                 req' = [req EXCEPT ![r] = Finish(q1, <<Call("llm", TRUE, <<>>)>>, Answer(a))]
        /\ UNCHANGED store

\* the response has been sent; the slot is free for the next request
Reset(r) ==
    /\ req[r].pc = "done"
    /\ req' = [req EXCEPT ![r] = Idle]
    /\ UNCHANGED store

-----------------------------------------------------------------------------
(* Request bodies *)

Alphabet == {"a", "b", SP, NL}

RECURSIVE SeqsUpTo(_, _)
SeqsUpTo(S, n) ==
    IF n = 0 THEN {<<>>}
    ELSE LET shorter == SeqsUpTo(S, n - 1)
         IN  shorter \cup {Append(s, x) : s \in {t \in shorter : Len(t) = n - 1}, x \in S}

IngestFields == {"document_id", "text"}
ChatFields == {"document_id", "question", "history"}

\* a text of two chunks, a text of one chunk
TextTwo == <<"a", "b", "a", "b", "b", "a">>
TextOne == <<"a", SP, "b">>

Turn(role, content) == [role |-> role, content |-> content]

\* a turn's role as sent by a client; Absent when the turn has no role
Roles == {"user", "ai", "assistant", Absent}
Turns == {Turn(ro, c) : ro \in Roles, c \in {"m1", "m2"}}

\* bodies with a required field missing (the missing field left at its default)
InvalidBodies ==
    {IngestInput(IngestFields \ {f}, IF f = "document_id" THEN "" ELSE "d1",
                 IF f = "text" THEN <<>> ELSE TextOne) : f \in IngestFields}
    \cup
    {ChatInput(ChatFields \ {f}, IF f = "document_id" THEN "" ELSE "d1",
               IF f = "question" THEN "" ELSE "q", <<>>) : f \in ChatFields}

\* the bodies of the concurrent specification
ConcurrentBodies ==
    {IngestInput(IngestFields, "d1", TextTwo), IngestInput(IngestFields, "d2", TextOne)}
    \cup {ChatInput(ChatFields, d, "q", <<Turn("user", "m1"), Turn("ai", "m2")>>) :
             d \in {"d1", "d2"}}
    \cup {IngestInput({"text"}, "", TextOne)}

\* the bodies of the single-request specification: chats for d1 over every
\* history up to MaxHist, chats and ingests with empty strings, bodies with
\* a field missing
SerialBodies ==
    {IngestInput(IngestFields, "d1", TextOne), IngestInput(IngestFields, "d1", <<SP>>),
     IngestInput(IngestFields, "", <<>>)}
    \cup {ChatInput(ChatFields, "d1", "q", h) : h \in SeqsUpTo(Turns, MaxHist)}
    \cup {ChatInput(ChatFields, "", "q", <<>>), ChatInput(ChatFields, "d1", "", <<>>),
          ChatInput(ChatFields, "d2", "q", <<>>)}
    \cup InvalidBodies

\* the bodies of the chunking specification: every text up to MaxTextLen
ChunkBodies == {IngestInput(IngestFields, "d1", t) : t \in SeqsUpTo(Alphabet, MaxTextLen)}

\* what the store may hold when the service starts: nothing, or a vector of
\* d1 written under the nested metadata path
InitStores == {<<>>, <<LegacyVector("d1", <<"a", "b">>)>>}

-----------------------------------------------------------------------------
(* Specifications *)

\* the request slots of the concurrent and of the single-request specifications
Slots == {1, 2}
OneSlot == {1}

\* two requests at a time, interleaving at their external calls
Init ==
    /\ store \in InitStores
    /\ req = [r \in Slots |-> Idle]

Next ==
    \E r \in Slots :
        \/ Receive(r, ConcurrentBodies, MaxStore)
        \/ Ingest(r)
        \/ SearchRoot(r)
        \/ SearchNested(r)
        \/ Retrieve(r)
        \/ Generate(r)
        \/ Reset(r)

Spec == Init /\ [][Next]_vars

\* one request at a time, over every body
InitSerial ==
    /\ store \in InitStores
    /\ req = [r \in OneSlot |-> Idle]

NextSerial ==
    \E r \in OneSlot :
        \/ Receive(r, SerialBodies, MaxStore)
        \/ Ingest(r)
        \/ SearchRoot(r)
        \/ SearchNested(r)
        \/ Retrieve(r)
        \/ Generate(r)
        \/ Reset(r)

SpecSerial == InitSerial /\ [][NextSerial]_vars

\* one ingest of any bounded text into an empty store
InitChunk ==
    /\ store = <<>>
    /\ req = [r \in OneSlot |-> Idle]

NextChunk ==
    \E r \in OneSlot :
        \/ Receive(r, ChunkBodies, MaxTextLen + 1)
        \/ Ingest(r)

SpecChunk == InitChunk /\ [][NextChunk]_vars

-----------------------------------------------------------------------------
(* Properties *)

Active == {r \in DOMAIN req : req[r].pc # "idle"}
Chats == {r \in Active : req[r].in.kind = "chat" /\ Valid(req[r].in)}
Ingests == {r \in Active : req[r].in.kind = "ingest" /\ Valid(req[r].in)}

QueryOps == {"search_root", "search_nested", "retrieve"}

\* the calls of request r, by position, that did the operation op
CallsOf(r, op) == {i \in 1..Len(req[r].log) : req[r].log[i].op = op}

\* request r made the call op, it succeeded, and it returned no result / some result
ReturnedEmpty(r, op) ==
    \E i \in CallsOf(r, op) : req[r].log[i].ok /\ req[r].log[i].out = <<>>
ReturnedSome(r, op) ==
    \E i \in CallsOf(r, op) : req[r].log[i].ok /\ req[r].log[i].out # <<>>

AllCallsOk(r) == \A i \in 1..Len(req[r].log) : req[r].log[i].ok

\* the message of the collaborator behind a call
ErrorOf(op) ==
    IF op \in {"embed_documents", "embed_query"} THEN EmbedError
    ELSE IF op = "llm" THEN LlmError
    ELSE StoreError

\* C1: every chunk a chat for document D obtains from the store, in the
\* primary search, the fallback search and the retrieval that feeds the
\* prompt, belongs to D; so does every chunk of the context the language
\* model is called with.
C1_Isolation ==
    \A r \in Chats :
        /\ \A i \in 1..Len(req[r].log) :
              req[r].log[i].op \in QueryOps =>
                 \A j \in 1..Len(req[r].log[i].out) :
                    DocIdOf(req[r].log[i].out[j]) = req[r].in.document_id
        /\ \A i \in 1..Len(req[r].llm) :
              \A j \in 1..Len(req[r].llm[i].context) :
                 DocIdOf(req[r].llm[i].context[j]) = req[r].in.document_id

\* a chat was answered from a non-empty context while the store also held
\* a vector of another document
C1_Witness ==
    \E r \in Chats :
        /\ req[r].llm # <<>> /\ req[r].llm[1].context # <<>>
        /\ \E i \in 1..Len(store) : DocIdOf(store[i]) # req[r].in.document_id

\* C2: when the store holds vectors of D only under the nested path, a chat
\* for D that runs to its answer gets nothing from the primary search, gets
\* matches from the fallback search, and the model is called with those
\* fallback matches as context (not with an empty context).
C2_FallbackFeedsGeneration ==
    \A r \in Chats :
        ( /\ req[r].pc = "done"
          /\ AllCallsOk(r)
          /\ ReturnedSome(r, "search_nested")
          /\ \A i \in 1..Len(store) : store[i].root # req[r].in.document_id )
        => /\ ReturnedEmpty(r, "search_root")
           /\ req[r].resp.kind = "answer"
           /\ req[r].resp.answer # NoContentMessage
           /\ Len(req[r].llm) = 1
           /\ req[r].llm[1].context # <<>>
           /\ req[r].llm[1].context = req[r].results

\* the message a turn becomes under the claimed rule: "user" to a user
\* message, everything else to an assistant message
TotalMessage(turn) ==
    [type |-> IF turn.role = "user" THEN "human" ELSE "ai", content |-> turn.content]

\* C3 as stated: chat_history has one message per turn, in order, "user"
\* turns as user messages and every other turn as an assistant message.
C3_AssemblerTotal ==
    \A r \in Chats :
        \A i \in 1..Len(req[r].llm) :
            LET h == req[r].in.history
                m == req[r].llm[i].chat_history
            IN  /\ Len(m) = Len(h)
                /\ \A j \in 1..Len(h) : m[j] = TotalMessage(h[j])

KnownRole(turn) == turn.role \in {"user", "ai"}

\* C3 as amended: chat_history is, in order, the turns whose role is "user"
\* (user messages) or "ai" (assistant messages); turns with any other role,
\* or with none, are left out.
C3_AssemblerKnownRoles ==
    \A r \in Chats :
        \A i \in 1..Len(req[r].llm) :
            LET kept == SelectSeq(req[r].in.history, KnownRole)
                m == req[r].llm[i].chat_history
            IN  /\ Len(m) = Len(kept)
                /\ \A j \in 1..Len(kept) : m[j] = TotalMessage(kept[j])

\* the model was called for a history that mixes kept and dropped turns
C3_Witness ==
    \E r \in Chats :
        /\ req[r].llm # <<>>
        /\ req[r].llm[1].chat_history # <<>>
        /\ Len(req[r].llm[1].chat_history) < Len(req[r].in.history)

\* C4: a chat whose primary and fallback searches both return nothing ends
\* with a normal response carrying the fixed no-content message, without an
\* error and without a call to the language model.
C4_ZeroResultIsAnswer ==
    \A r \in Chats :
        (ReturnedEmpty(r, "search_root") /\ ReturnedEmpty(r, "search_nested"))
        => /\ req[r].pc = "done"
           /\ req[r].resp = Answer(NoContentMessage)
           /\ req[r].resp.status = 200
           /\ req[r].llm = <<>>
           /\ CallsOf(r, "llm") = {}

\* a chat for a document the store holds nothing of has ended that way
C4_Witness ==
    \E r \in Chats :
        /\ ReturnedEmpty(r, "search_root") /\ ReturnedEmpty(r, "search_nested")
        /\ req[r].resp.answer = NoContentMessage
        /\ \A i \in 1..Len(store) : DocIdOf(store[i]) # req[r].in.document_id

\* C5: whenever the language model is called, the context in its prompt is
\* not empty.
C5_NoEmptyContext ==
    \A r \in Chats : \A i \in 1..Len(req[r].llm) : req[r].llm[i].context # <<>>

\* C6: a request in which a call to a collaborator fails makes no call
\* after the failed one, and ends with a 500 response carrying the error's
\* message; a success or an answer is returned only when no call failed.
C6_FailurePropagation ==
    \A r \in Active :
        /\ \A i \in 1..Len(req[r].log) :
              ~req[r].log[i].ok =>
                 /\ i = Len(req[r].log)
                 /\ req[r].pc = "done"
                 /\ req[r].resp.status = 500
                 /\ req[r].resp.kind = "error"
                 /\ req[r].resp.detail = ErrorOf(req[r].log[i].op)
        /\ req[r].resp.kind \in {"success", "answer"} => AllCallsOk(r)

\* a chat whose language-model call failed, after its searches succeeded
C6_Witness ==
    \E r \in Chats :
        /\ req[r].log # <<>>
        /\ req[r].log[Len(req[r].log)] = Call("llm", FALSE, <<>>)
        /\ req[r].resp = ServerError(LlmError)

\* the vectors an ingest of (d, text) is to add
ExpectedVectors(d, text) ==
    LET cs == SplitText(text)
    IN  [i \in 1..Len(cs) |-> [root |-> d, nested |-> Absent, text |-> cs[i]]]

\* C7: a successful ingest of (D, text) appends exactly the chunks of text,
\* each tagged D, and reports their number; no step changes or removes a
\* vector already stored; only an ingest step changes the store.
C7_IngestEffect ==
    [][ /\ \A r \in DOMAIN req :
              (req[r].pc = "ingest" /\ req'[r].pc = "done" /\ req'[r].resp.kind = "success")
              => /\ store' = store \o ExpectedVectors(req[r].in.document_id, req[r].in.text)
                 /\ req'[r].resp.chunks_created = Len(store') - Len(store)
        /\ Len(store') >= Len(store)
        /\ SubSeq(store', 1, Len(store)) = store
        /\ store' # store => \E r \in DOMAIN req : req[r].pc = "ingest" /\ req'[r].pc = "done"
      ]_vars

\* an ingest of two chunks succeeded on a store that already held a vector
C7_Witness ==
    \E r \in Ingests :
        /\ req[r].resp.kind = "success"
        /\ req[r].resp.chunks_created = 2
        /\ Len(store) = 3
        /\ store[1].root # req[r].in.document_id

Ingested == {r \in Ingests : req[r].pc = "done"}

\* the last ChunkOverlap characters of a chunk (all of it when shorter)
TrailingWindow(c) == SubSeq(c, Len(c) - Min(Len(c), ChunkOverlap) + 1, Len(c))

StartsWith(c, w) == Len(w) <= Len(c) /\ SubSeq(c, 1, Len(w)) = w

SizeBound(chunks) == \A i \in 1..Len(chunks) : Len(chunks[i].page_content) <= ChunkSize

WindowCarried(chunks) ==
    \A i \in 1..(Len(chunks) - 1) :
        StartsWith(chunks[i + 1].page_content, TrailingWindow(chunks[i].page_content))

NoSeparator(text) == \A i \in 1..Len(text) : text[i] \notin Whitespace

FieldsOf(in) == IF in.kind = "ingest" THEN IngestFields ELSE ChatFields
MissingField(in) == in.present # FieldsOf(in)
EmptyField(in) ==
    \/ in.document_id = ""
    \/ in.kind = "ingest" /\ in.text = <<>>
    \/ in.kind = "chat" /\ in.question = ""

Rejected(q) ==
    /\ q.pc = "done"
    /\ q.resp = ValidationError
    /\ q.log = <<>>
    /\ q.llm = <<>>

\* C9 as stated: a request whose document_id, text or question is missing
\* or empty is rejected as a validation error before any external call.
C9_RejectsMissingOrEmpty ==
    \A r \in Active :
        (MissingField(req[r].in) \/ EmptyField(req[r].in))
        => /\ req[r].log = <<>>
           /\ req[r].pc = "done" => req[r].resp = ValidationError

\* C9 as amended: a request with a required field missing (document_id or
\* text of an ingest; document_id, question or history of a chat) is
\* rejected as a validation error before any external call and leaves the
\* store unchanged; an empty string is a valid value.
C9_RejectsMissing ==
    [][ \A r \in DOMAIN req :
           (req'[r].pc # "idle" /\ MissingField(req'[r].in))
           => /\ Rejected(req'[r])
              /\ req[r].pc = "idle" => store' = store
      ]_vars

\* a body with a missing field was rejected
C9_Witness ==
    \E r \in Active : MissingField(req[r].in) /\ Rejected(req[r]) /\ req[r].resp.status = 422

\* C10: in a chat request the language model is called at most once, after
\* a completed retrieval and after every store query of the request, and
\* no call follows it.
C10_RetrievalBeforeGeneration ==
    \A r \in Chats :
        /\ Len(req[r].llm) <= 1
        /\ Cardinality(CallsOf(r, "llm")) = Len(req[r].llm)
        /\ \A i \in CallsOf(r, "llm") :
              /\ i = Len(req[r].log)
              /\ \E j \in 1..(i - 1) : req[r].log[j].op = "retrieve" /\ req[r].log[j].ok
              /\ \A j \in 1..(i - 1) : req[r].log[j].ok
              /\ \A j \in 1..Len(req[r].log) : req[r].log[j].op \in QueryOps => j < i

\* a chat has called the model after its searches while another request
\* was between two of its own calls
C10_Witness ==
    \E r \in Chats :
        /\ CallsOf(r, "llm") # {}
        /\ CallsOf(r, "search_nested") # {}
        /\ \E o \in Active \ {r} : req[o].pc # "done"

=============================================================================
